---- MODULE Spec2Model ----
(***************************************************************************)
(* Model of StreamingVoiceService (services/streamingVoice, the aggressive *)
(* threshold profile): the connection handlers, the per-call stores, the   *)
(* accumulate/flush policy, the transcribe -> respond -> synthesize cycle, *)
(* the paced outbound streamer and the delayed memory eviction.            *)
(*                                                                         *)
(* JavaScript runs every handler to its next await without interruption,   *)
(* so each action below is one such run: the arrival of a message, the     *)
(* settling of an awaited promise, or the firing of a timer.               *)
(***************************************************************************)
EXTENDS Integers, Sequences, FiniteSets, TLC

\* ---------------------------------------------------------------- constants
FrameMs == 20
MinFlushMs == 800
MaxSilenceGapMs == 2000
MinAudioFloorMs == 500
MinViableMs == 100
GraceDelayMs == 300000
ChunkSize == 4096

\* ------------------------------------------------------------------- bounds
Conns == {1, 2}
CallSids == {"CA1", "CA2"}
NoSid == "none"
\* Date.now() when the service is constructed
StartNow == 1000000
\* media frames arrive in runs of FrameRun consecutive frames
FrameRun == 25
MaxRuns == 3
MaxStarts == 2
MaxCycles == 2
MaxTicks == 1
MaxStops == 1
\* messages discarded by the message handler in one exploration
MaxJunk == 1
\* events handled in one exploration
MaxSteps == 8
\* lengths (bytes) of the audio a synthesis provider may return
AudioLens == {ChunkSize + 1}
\* steps by which the clock advances
TickSteps == {MaxSilenceGapMs, GraceDelayMs}

VARIABLES
  now,                 \* Date.now()
  conns,               \* per connection: socket state, closure variable callSid, frames
                       \* received, messages discarded
  sessions,            \* heap of CallSession objects, in creation order
  memories,            \* heap of conversation-memory objects, in creation order
  activeCalls,         \* Map callSid -> CallSession (index into sessions)
  audioBuffers,        \* Map callSid -> array of frames
  conversationMemory,  \* Map callSid -> memory object (index into memories)
  greetings,           \* start handlers suspended in sendInitialGreeting
  cycles,              \* processAccumulatedAudio invocations
  streams,             \* sendAudioToStreamRealtime invocations (pacing chains)
  timers,              \* pending memory-eviction timers, in scheduling order
  nTicks, nStops, nRuns, \* counters that bound the exploration
  steps,                \* number of events handled so far
  arg, res              \* argument and result of a helper function called on its own

vars == <<now, conns, sessions, memories, activeCalls, audioBuffers,
          conversationMemory, greetings, cycles, streams, timers, nTicks, nStops, nRuns, steps,
          arg, res>>

\* ------------------------------------------------------------ Map helpers
MapHas(m, k) == k \in DOMAIN m
MapSet(m, k, v) == [x \in (DOMAIN m) \cup {k} |-> IF x = k THEN v ELSE m[x]]
MapDelete(m, k) == [x \in (DOMAIN m) \ {k} |-> m[x]]
EmptyMap == [x \in {} |-> 0]

\* one more event is handled
Step == steps < MaxSteps /\ steps' = steps + 1 /\ UNCHANGED <<arg, res>>

\* no helper function has been called on its own
NoCall == <<>>

\* ----------------------------------------------------------- construction
\* the service after construction
Service ==
  /\ now = StartNow
  /\ conns = [k \in Conns |-> [state |-> "idle", callSid |-> NoSid, sent |-> 0, junk |-> 0]]
  /\ sessions = <<>>
  /\ memories = <<>>
  /\ activeCalls = EmptyMap
  /\ audioBuffers = EmptyMap
  /\ conversationMemory = EmptyMap
  /\ greetings = <<>>
  /\ cycles = <<>>
  /\ streams = <<>>
  /\ timers = <<>>
  /\ nTicks = 0
  /\ nStops = 0
  /\ nRuns = 0
  /\ steps = 0

Init ==
  /\ Service
  /\ arg = NoCall
  /\ res = NoCall

\* -------------------------------------------------------- outbound streamer
\* ws.send on a socket: the message is written only while the socket is open
\* (ws 8: send on a closing or closed socket without a callback returns silently)
SocketOpen(cs, ws) == cs[ws].state = "open"

\* a pacing chain whose last timer has fired: its closure is garbage
Finished == [ws |-> 0, streamSid |-> 0, len |-> 0, offset |-> 0,
             armed |-> FALSE, wrote |-> 0, owner |-> 0]

\* sendAudioToStreamRealtime: the first sendChunk() runs synchronously
SendAudioToStreamRealtime(cs, ws, streamSid, len, owner) ==
  IF 0 < len
  THEN [ws |-> ws, streamSid |-> streamSid, len |-> len, offset |-> ChunkSize,
        armed |-> TRUE, wrote |-> IF SocketOpen(cs, ws) THEN 1 ELSE 0, owner |-> owner]
  ELSE Finished

\* mutant of NextChunk: a remainder shorter than a chunk is not sent
NextChunkWholeOnly(st, cs) ==
  IF st.offset + ChunkSize <= st.len
  THEN [st EXCEPT !.offset = @ + ChunkSize,
                  !.wrote = IF SocketOpen(cs, st.ws) THEN @ + 1 ELSE @]
  ELSE Finished

\* one run of the sendChunk closure of a pacing chain from its timer
NextChunk(st, cs) ==
  IF st.offset < st.len
  THEN [st EXCEPT !.offset = @ + ChunkSize,
                  !.wrote = IF SocketOpen(cs, st.ws) THEN @ + 1 ELSE @]
  ELSE Finished

\* the setTimeout(sendChunk, 10) callback of stream s
SendChunk(s) ==
  /\ Step
  /\ s \in 1..Len(streams)
  /\ streams[s].armed
  /\ streams' = [streams EXCEPT ![s] = NextChunk(@, conns)]
  /\ UNCHANGED <<now, conns, sessions, memories, activeCalls, audioBuffers,
                 conversationMemory, greetings, cycles, timers, nTicks, nStops, nRuns>>

\* ------------------------------------------------------------- connections
\* wss.on('connection'); connections are numbered in the order they are accepted
Connect(k) ==
  /\ Step
  /\ conns[k].state = "idle"
  /\ \A j \in Conns : j < k => conns[j].state # "idle"
  /\ conns' = [conns EXCEPT ![k].state = "open"]
  /\ UNCHANGED <<now, sessions, memories, activeCalls, audioBuffers,
                 conversationMemory, greetings, cycles, streams, timers, nTicks, nStops, nRuns>>

\* the conversation memory handleStreamStart allocates
NewConversationMemory == [messages |-> <<>>, businessId |-> "pizzakarachi", context |-> EmptyMap]

\* handleStreamStart up to the await inside sendInitialGreeting
HandleStreamStart(k, sid) ==
  /\ Step
  /\ conns[k].state = "open"
  /\ Len(sessions) < MaxStarts
  /\ LET o == Len(sessions) + 1 IN
       /\ sessions' = Append(sessions, [sid |-> sid, ws |-> k, streamSid |-> o,
                                        isProcessing |-> FALSE, lastProcessTime |-> 0,
                                        stopped |-> FALSE])
       /\ memories' = Append(memories, NewConversationMemory)
       /\ activeCalls' = MapSet(activeCalls, sid, o)
       /\ audioBuffers' = MapSet(audioBuffers, sid, <<>>)
       /\ conversationMemory' = MapSet(conversationMemory, sid, o)
       /\ greetings' = Append(greetings, [conn |-> k, sid |-> sid, sess |-> o, stage |-> "tts1"])
  /\ UNCHANGED <<now, conns, cycles, streams, timers, nTicks, nStops, nRuns>>

\* mutant of BindSession: callSid is one variable shared by all connections
BindSessionShared(cs, k, sid) == [j \in DOMAIN cs |-> [cs[j] EXCEPT !.callSid = sid]]

\* ws.on('message') after the awaited handler returns: callSid = data.start.callSid
BindSession(cs, k, sid) == [cs EXCEPT ![k].callSid = sid]

\* generateSpeechAudioElevenLabs settles inside sendInitialGreeting
GreetingPrimary(g, len) ==
  /\ Step
  /\ g \in 1..Len(greetings)
  /\ greetings[g].stage = "tts1"
  /\ IF len >= 0
     THEN /\ streams' = Append(streams, SendAudioToStreamRealtime(conns, greetings[g].conn,
                                   sessions[greetings[g].sess].streamSid, len, greetings[g].sess))
          /\ greetings' = [greetings EXCEPT ![g].stage = "done"]
          /\ conns' = BindSession(conns, greetings[g].conn, greetings[g].sid)
     ELSE /\ greetings' = [greetings EXCEPT ![g].stage = "tts2"]
          /\ UNCHANGED <<streams, conns>>
  /\ UNCHANGED <<now, sessions, memories, activeCalls, audioBuffers,
                 conversationMemory, cycles, timers, nTicks, nStops, nRuns>>

\* mutant of GreetingFallback: a greeting that cannot be synthesized unregisters
\* the call
GreetingFallbackDropsCall(g, len) ==
  /\ Step
  /\ g \in 1..Len(greetings)
  /\ greetings[g].stage = "tts2"
  /\ IF len >= 0
     THEN /\ streams' = Append(streams, SendAudioToStreamRealtime(conns, greetings[g].conn,
                                   sessions[greetings[g].sess].streamSid, len, greetings[g].sess))
          /\ UNCHANGED activeCalls
     ELSE /\ UNCHANGED streams
          /\ activeCalls' = MapDelete(activeCalls, greetings[g].sid)
  /\ greetings' = [greetings EXCEPT ![g].stage = "done"]
  /\ conns' = BindSession(conns, greetings[g].conn, greetings[g].sid)
  /\ UNCHANGED <<now, sessions, memories, audioBuffers,
                 conversationMemory, cycles, timers, nTicks, nStops, nRuns>>

\* generateSpeechAudio (fallback) settles inside sendInitialGreeting
GreetingFallback(g, len) ==
  /\ Step
  /\ g \in 1..Len(greetings)
  /\ greetings[g].stage = "tts2"
  /\ IF len >= 0
     THEN streams' = Append(streams, SendAudioToStreamRealtime(conns, greetings[g].conn,
                                   sessions[greetings[g].sess].streamSid, len, greetings[g].sess))
     ELSE UNCHANGED streams
  /\ greetings' = [greetings EXCEPT ![g].stage = "done"]
  /\ conns' = BindSession(conns, greetings[g].conn, greetings[g].sid)
  /\ UNCHANGED <<now, sessions, memories, activeCalls, audioBuffers,
                 conversationMemory, cycles, timers, nTicks, nStops, nRuns>>

\* ------------------------------------------------------- accumulator / flush
\* mutant of ShouldProcessAudio: the silence-gap trigger ignores isProcessing
ShouldProcessAudioIgnoresBusy(callSession, bufLen, t) ==
  LET bufferDuration == bufLen * FrameMs
      timeSinceLastProcess == t - callSession.lastProcessTime
  IN \/ bufferDuration >= MinFlushMs
     \/ /\ timeSinceLastProcess >= MaxSilenceGapMs
        /\ bufferDuration >= MinAudioFloorMs

\* mutant of ShouldProcessAudio: the silence-gap trigger has no audio floor
ShouldProcessAudioNoFloor(callSession, bufLen, t) ==
  LET bufferDuration == bufLen * FrameMs
      timeSinceLastProcess == t - callSession.lastProcessTime
  IN \/ bufferDuration >= MinFlushMs
     \/ /\ timeSinceLastProcess >= MaxSilenceGapMs
        /\ ~callSession.isProcessing

\* shouldProcessAudio; lastProcessTime is 0 while undefined (lastProcessTime || 0)
ShouldProcessAudio(callSession, bufLen, t) ==
  LET bufferDuration == bufLen * FrameMs
      timeSinceLastProcess == t - callSession.lastProcessTime
  IN \/ bufferDuration >= MinFlushMs
     \/ /\ timeSinceLastProcess >= MaxSilenceGapMs
        /\ bufferDuration >= MinAudioFloorMs
        /\ ~callSession.isProcessing

\* mutant of ClearBuffer: the flushed frames stay in the pending buffer
ClearBufferKeeps(bufs, sid) == bufs

\* the buffer swap of processAccumulatedAudio: this.audioBuffers.set(callSid, [])
ClearBuffer(bufs, sid) == MapSet(bufs, sid, <<>>)

\* mutant of IsProcessing: one flag for the whole service
IsProcessingAny(ss, o) == \E i \in DOMAIN ss : ss[i].isProcessing

\* callSession.isProcessing, the guard of processAccumulatedAudio
IsProcessing(ss, o) == ss[o].isProcessing

\* processAccumulatedAudio up to its first await (transcribeAudio)
\* S is the part of the state the media path touches
ProcessAccumulatedAudio(S, ws, sid, audioBuffer, t) ==
  IF ~MapHas(activeCalls, sid) THEN S
  ELSE LET o == activeCalls[sid] IN
    IF IsProcessing(S.sessions, o) THEN S
    ELSE IF Len(audioBuffer) * FrameMs < MinViableMs
    THEN [S EXCEPT !.sessions[o].lastProcessTime = t]
    ELSE [S EXCEPT !.sessions[o].isProcessing = TRUE,
                   !.sessions[o].lastProcessTime = t,
                   !.audioBuffers = ClearBuffer(@, sid),
                   !.cycles = Append(@, [sid |-> sid, sess |-> o, ws |-> ws,
                                         batch |-> audioBuffer, stage |-> "stt",
                                         mem |-> 0, target |-> 0, text |-> "none"])]

\* mutant of PushFrame: a frame that arrives while the call's cycle is in flight
\* is dropped
PushFrameUnlessBusy(bufs, sid, frame) ==
  IF sessions[activeCalls[sid]].isProcessing
  THEN bufs
  ELSE MapSet(bufs, sid, Append(IF MapHas(bufs, sid) THEN bufs[sid] ELSE <<>>, frame))

\* audioBuffer.push(audioChunk); this.audioBuffers.set(callSid, audioBuffer)
PushFrame(bufs, sid, frame) ==
  MapSet(bufs, sid, Append(IF MapHas(bufs, sid) THEN bufs[sid] ELSE <<>>, frame))

\* handleMediaFrame for one frame; sid is the callSid of the handler's session snapshot
HandleMediaFrame(S, ws, sid, frame, t) ==
  IF sid = NoSid THEN S
  ELSE IF ~MapHas(activeCalls, sid) THEN S
  ELSE LET S1 == [S EXCEPT !.audioBuffers = PushFrame(@, sid, frame)]
           buf == S1.audioBuffers[sid]
       IN IF ShouldProcessAudio(S1.sessions[activeCalls[sid]], Len(buf), t)
          THEN ProcessAccumulatedAudio(S1, ws, sid, buf, t)
          ELSE S1

\* n consecutive media messages on connection k, the first numbered first
\* (cycles only grows; the comparison makes each frame's result a value before the next)
RECURSIVE MediaFrames(_, _, _, _, _, _)
MediaFrames(S, k, sid, first, n, t) ==
  IF n = 0 THEN S
  ELSE LET S1 == HandleMediaFrame(S, k, sid, <<k, first>>, t)
       IN IF Len(S1.cycles) >= Len(S.cycles)
          THEN MediaFrames(S1, k, sid, first + 1, n - 1, t)
          ELSE S1

\* ws.on('message') for a run of media messages on connection k
MediaRun(k) ==
  /\ Step
  /\ conns[k].state = "open"
  /\ nRuns < MaxRuns
  /\ nRuns' = nRuns + 1
  /\ LET S0 == [sessions |-> sessions, audioBuffers |-> audioBuffers, cycles |-> cycles]
     IN \E S1 \in {MediaFrames(S0, k, conns[k].callSid, conns[k].sent + 1, FrameRun, now)} :
        /\ Len(S1.cycles) <= MaxCycles
        /\ sessions' = S1.sessions
        /\ audioBuffers' = S1.audioBuffers
        /\ cycles' = S1.cycles
  /\ conns' = [conns EXCEPT ![k].sent = @ + FrameRun]
  /\ UNCHANGED <<now, memories, activeCalls, conversationMemory, greetings,
                 streams, timers, nTicks, nStops>>

\* ------------------------------------------------------------ speech pipeline
Fail == 0 - 1
TtsOutcomes == AudioLens \cup {Fail}

\* a processAccumulatedAudio invocation that has returned: its locals are garbage
Returned(cy) == [sid |-> cy.sid, sess |-> cy.sess, ws |-> 0, batch |-> <<>>,
                 stage |-> "done", mem |-> 0, target |-> 0, text |-> "none"]

\* mutant of EndCycle: an exit path that forgets to reset the flag
EndCycleMissing(ss, o) == ss

\* mutant of EndCycle: the flag is reset on every session, not only the cycle's own
EndCycleAll(ss, o) == [i \in DOMAIN ss |-> [ss[i] EXCEPT !.isProcessing = FALSE]]

\* the finally block of processAccumulatedAudio: callSession.isProcessing = false
EndCycle(ss, o) == [ss EXCEPT ![o].isProcessing = FALSE]

\* respondWithSpeech up to its first await: the session is looked up by callSid
RespondWithSpeech(c, text) ==
  IF MapHas(activeCalls, cycles[c].sid)
  THEN /\ cycles' = [cycles EXCEPT ![c].stage = "tts1", ![c].text = text,
                                   ![c].target = activeCalls[cycles[c].sid]]
       /\ UNCHANGED sessions
  ELSE /\ cycles' = [cycles EXCEPT ![c] = Returned(@)]
       /\ sessions' = EndCycle(sessions, cycles[c].sess)

\* the entries processTranscription pushes; the content of a turn is identified by
\* the cycle that produced it
UserTurn(c) == [role |-> "user", content |-> c]
AssistantTurn(c) == [role |-> "assistant", content |-> c, intent |-> "intent"]

\* mutant of PushTurn: the entry is put in front of the earlier ones
PushTurnFirst(messages, turn) == <<turn>> \o messages

\* conversationMemory.messages.push(...)
PushTurn(messages, turn) == Append(messages, turn)

\* the texts the transcription provider may return, as sequences of characters
WhisperTexts == {<<>>, <<" ">>, <<"h", "i">>, <<" ", "h", "i", " ">>}
\* what the awaited provider call may do: resolve with a text, or reject
WhisperOutcomes == [ok : {TRUE}, text : WhisperTexts] \cup {[ok |-> FALSE, text |-> <<>>]}

\* mutant of Trim: the text is used as the provider returned it
TrimNothing(s) == s

\* String.prototype.trim
RECURSIVE Trim(_)
Trim(s) ==
  IF s = <<>> THEN s
  ELSE IF Head(s) = " " THEN Trim(Tail(s))
  ELSE IF s[Len(s)] = " " THEN Trim(SubSeq(s, 1, Len(s) - 1))
  ELSE s

\* transcribeAudio's result is usable: not null (the provider did not reject), and
\* transcription.trim().length > 0 in processAccumulatedAudio
HasTranscript(outcome) == outcome.ok /\ Len(Trim(Trim(outcome.text))) > 0

\* transcribeAudio settles: a transcript, an empty transcript, or null on failure;
\* with a transcript, processTranscription runs up to await handleCallLogic
TranscribeDone(c, outcome) ==
  /\ Step
  /\ c \in 1..Len(cycles)
  /\ cycles[c].stage = "stt"
  /\ IF HasTranscript(outcome) /\ MapHas(conversationMemory, cycles[c].sid)
     THEN LET m == conversationMemory[cycles[c].sid] IN
          /\ memories' = [memories EXCEPT ![m].messages = PushTurn(@, UserTurn(c))]
          /\ cycles' = [cycles EXCEPT ![c].stage = "reply", ![c].mem = m]
          /\ UNCHANGED sessions
     ELSE /\ cycles' = [cycles EXCEPT ![c] = Returned(@)]
          /\ sessions' = EndCycle(sessions, cycles[c].sess)
          /\ UNCHANGED memories
  /\ UNCHANGED <<now, conns, activeCalls, audioBuffers, conversationMemory,
                 greetings, streams, timers, nTicks, nStops, nRuns>>

\* handleCallLogic settles: a reply, or a rejection caught by processTranscription
ReplyDone(c, ok) ==
  /\ Step
  /\ c \in 1..Len(cycles)
  /\ cycles[c].stage = "reply"
  /\ IF ok
     THEN /\ memories' = [memories EXCEPT ![cycles[c].mem].messages = PushTurn(@, AssistantTurn(c))]
          /\ RespondWithSpeech(c, "reply")
     ELSE /\ UNCHANGED memories
          /\ RespondWithSpeech(c, "apology")
  /\ UNCHANGED <<now, conns, activeCalls, audioBuffers, conversationMemory,
                 greetings, streams, timers, nTicks, nStops, nRuns>>

\* mutant of SpeechPrimary: there is no fallback; a failure of the primary provider
\* ends the cycle
SpeechPrimaryNoFallback(c, len) ==
  /\ Step
  /\ c \in 1..Len(cycles)
  /\ cycles[c].stage = "tts1"
  /\ IF len >= 0
     THEN streams' = Append(streams, SendAudioToStreamRealtime(conns, cycles[c].ws,
                                   sessions[cycles[c].target].streamSid, len, cycles[c].target))
     ELSE UNCHANGED streams
  /\ cycles' = [cycles EXCEPT ![c] = Returned(@)]
  /\ sessions' = EndCycle(sessions, cycles[c].sess)
  /\ UNCHANGED <<now, conns, memories, activeCalls, audioBuffers, conversationMemory,
                 greetings, timers, nTicks, nStops, nRuns>>

\* generateSpeechAudioElevenLabs settles inside respondWithSpeech
SpeechPrimary(c, len) ==
  /\ Step
  /\ c \in 1..Len(cycles)
  /\ cycles[c].stage = "tts1"
  /\ IF len >= 0
     THEN /\ streams' = Append(streams, SendAudioToStreamRealtime(conns, cycles[c].ws,
                                   sessions[cycles[c].target].streamSid, len, cycles[c].target))
          /\ cycles' = [cycles EXCEPT ![c] = Returned(@)]
          /\ sessions' = EndCycle(sessions, cycles[c].sess)
     ELSE /\ cycles' = [cycles EXCEPT ![c].stage = "tts2"]
          /\ UNCHANGED <<streams, sessions>>
  /\ UNCHANGED <<now, conns, memories, activeCalls, audioBuffers, conversationMemory,
                 greetings, timers, nTicks, nStops, nRuns>>

\* generateSpeechAudio (fallback) settles inside respondWithSpeech
SpeechFallback(c, len) ==
  /\ Step
  /\ c \in 1..Len(cycles)
  /\ cycles[c].stage = "tts2"
  /\ IF len >= 0
     THEN streams' = Append(streams, SendAudioToStreamRealtime(conns, cycles[c].ws,
                                   sessions[cycles[c].target].streamSid, len, cycles[c].target))
     ELSE UNCHANGED streams
  /\ cycles' = [cycles EXCEPT ![c] = Returned(@)]
  /\ sessions' = EndCycle(sessions, cycles[c].sess)
  /\ UNCHANGED <<now, conns, memories, activeCalls, audioBuffers, conversationMemory,
                 greetings, timers, nTicks, nStops, nRuns>>

\* ------------------------------------------------------------------ teardown
\* setTimeout(() => this.conversationMemory.delete(callSid), 300000)
ScheduleEviction(ts, sid, t) == Append(ts, [sid |-> sid, due |-> t + GraceDelayMs])

\* mutant of CleanupCall: the conversation memory is deleted at once, not after
\* the grace delay
CleanupCallEvictsNow(sid) ==
  IF sid # NoSid
  THEN /\ activeCalls' = MapDelete(activeCalls, sid)
       /\ audioBuffers' = MapDelete(audioBuffers, sid)
       /\ conversationMemory' = MapDelete(conversationMemory, sid)
       /\ timers' = timers
  ELSE UNCHANGED <<activeCalls, audioBuffers, conversationMemory, timers>>

\* cleanupCall
CleanupCall(sid) ==
  IF sid # NoSid
  THEN /\ activeCalls' = MapDelete(activeCalls, sid)
       /\ audioBuffers' = MapDelete(audioBuffers, sid)
       /\ conversationMemory' = conversationMemory
       /\ timers' = ScheduleEviction(timers, sid, now)
  ELSE UNCHANGED <<activeCalls, audioBuffers, conversationMemory, timers>>

\* history kept with each session: a stop naming its callSid has been handled since
\* the session was created (the code keeps no such field)
MarkStopped(ss, sid) ==
  [o \in DOMAIN ss |-> IF ss[o].sid = sid THEN [ss[o] EXCEPT !.stopped = TRUE] ELSE ss[o]]

\* handleStreamStop: a stop message on connection k naming callSid sid
HandleStreamStop(k, sid) ==
  /\ Step
  /\ conns[k].state = "open"
  /\ nStops < MaxStops
  /\ nStops' = nStops + 1
  /\ CleanupCall(sid)
  /\ sessions' = MarkStopped(sessions, sid)
  /\ UNCHANGED <<now, conns, memories, greetings,
                 cycles, streams, nTicks, nRuns>>

\* ws.on('close')
Close(k) ==
  /\ Step
  /\ conns[k].state = "open"
  /\ conns' = [conns EXCEPT ![k].state = "closed"]
  /\ CleanupCall(conns[k].callSid)
  /\ UNCHANGED <<now, sessions, memories, greetings,
                 cycles, streams, nTicks, nStops, nRuns>>

\* the eviction timer at the head of the timer list fires
EvictMemory ==
  /\ Step
  /\ timers # <<>>
  /\ Head(timers).due <= now
  /\ conversationMemory' = MapDelete(conversationMemory, Head(timers).sid)
  /\ timers' = Tail(timers)
  /\ UNCHANGED <<now, conns, sessions, memories, activeCalls, audioBuffers,
                 greetings, cycles, streams, nTicks, nStops, nRuns>>

\* time passes; only a pending eviction deadline or the time of a previous flush
\* can tell how much
Tick(d) ==
  /\ Step
  /\ nTicks < MaxTicks
  /\ \/ d = GraceDelayMs /\ timers # <<>>
     \/ d = MaxSilenceGapMs /\ \E o \in 1..Len(sessions) : sessions[o].lastProcessTime > 0
  /\ nTicks' = nTicks + 1
  /\ now' = now + d
  /\ UNCHANGED <<conns, sessions, memories, activeCalls, audioBuffers,
                 conversationMemory, greetings, cycles, streams, timers, nStops, nRuns>>

\* getStats
GetStats == [activeCalls |-> Cardinality(DOMAIN activeCalls),
             conversationsInMemory |-> Cardinality(DOMAIN conversationMemory)]

\* ------------------------------------------------------------- specification
Next ==
  \/ \E k \in Conns : Connect(k)
  \/ \E k \in Conns, sid \in CallSids : HandleStreamStart(k, sid)
  \/ \E g \in 1..MaxStarts, len \in TtsOutcomes : GreetingPrimary(g, len)
  \/ \E g \in 1..MaxStarts, len \in TtsOutcomes : GreetingFallback(g, len)
  \/ \E k \in Conns : MediaRun(k)
  \/ \E c \in 1..MaxCycles, outcome \in WhisperOutcomes : TranscribeDone(c, outcome)
  \/ \E c \in 1..MaxCycles, ok \in BOOLEAN : ReplyDone(c, ok)
  \/ \E c \in 1..MaxCycles, len \in TtsOutcomes : SpeechPrimary(c, len)
  \/ \E c \in 1..MaxCycles, len \in TtsOutcomes : SpeechFallback(c, len)
  \/ \E s \in 1..(MaxStarts + MaxCycles) : SendChunk(s)
  \/ \E k \in Conns, sid \in CallSids : HandleStreamStop(k, sid)
  \/ \E k \in Conns : Close(k)
  \/ EvictMemory
  \/ \E d \in TickSteps : Tick(d)

Spec == Init /\ [][Next]_vars

\* ------------------------------------------------------------------ properties
Frames(q) == {q[i] : i \in DOMAIN q}
InFlight(c) == cycles[c].stage # "done"
\* the session object o is the one registered under its callSid
Registered(o) == MapHas(activeCalls, sessions[o].sid) /\ activeCalls[sessions[o].sid] = o
\* this step handles a run of media messages on connection k
MediaRunStep(k) == conns'[k].sent = conns[k].sent + FrameRun
\* this step runs cleanupCall(sid): a stop naming sid, or the close of a socket bound to sid
CleanupStep(sid) ==
  \/ \E k \in Conns : HandleStreamStop(k, sid)
  \/ \E k \in Conns : conns[k].callSid = sid /\ Close(k)

\* C1: for every callSid at most one processAccumulatedAudio cycle is in flight
C1_OneCyclePerCallSid ==
  \A sid \in CallSids :
    Cardinality({c \in 1..Len(cycles) : cycles[c].sid = sid /\ InFlight(c)}) <= 1

\* C2: a session's isProcessing is true exactly while a cycle of that session is in
\* flight: it is set when the cycle starts and is false again once the cycle has
\* ended, whichever way it ended
C2_IsProcessingWhileInFlight ==
  \A o \in 1..Len(sessions) :
    sessions[o].isProcessing <=> \E c \in 1..Len(cycles) : cycles[c].sess = o /\ InFlight(c)

\* a cycle has ended and a later cycle of the same session is in flight
C2_Witness ==
  \E c1, c2 \in 1..Len(cycles) :
    /\ c1 < c2
    /\ cycles[c1].sess = cycles[c2].sess
    /\ ~InFlight(c1)
    /\ InFlight(c2)
    /\ sessions[cycles[c2].sess].isProcessing

C4_SecondCleanupIsNoOp ==
  [][ \A sid \in CallSids :
        (CleanupStep(sid) /\ ~MapHas(activeCalls, sid)) =>
           UNCHANGED <<activeCalls, audioBuffers, conversationMemory, timers>>
    ]_vars

\* C5: the pacing timer of a stream writes a media message only while the call
\* the stream belongs to has not been torn down
C5_NoPacedWriteAfterTeardown ==
  [][ \A s \in 1..Len(streams) :
        streams'[s].wrote > streams[s].wrote =>
          MapHas(activeCalls, sessions[streams[s].owner].sid)
    ]_vars

\* C6: a cycle writes audio to the socket only while its call's session has not
\* been removed
C6_NoReplyAfterRemoval ==
  [][ \A c \in 1..Len(cycles) :
        ( /\ cycles[c].stage \in {"tts1", "tts2"}
          /\ cycles'[c].stage = "done"
          /\ Len(streams') > Len(streams)
          /\ streams'[Len(streams')].wrote > 0 ) => MapHas(activeCalls, cycles[c].sid)
    ]_vars

\* the frames of the run of media messages handled in this step on connection k
RunFrames(k) == [i \in 1..FrameRun |-> <<k, conns[k].sent + i>>]

\* C7: the buffer is swapped at flush. A run of frames that arrives for an active
\* session whose cycle is in flight is appended, in order, to the pending buffer and
\* leaves every cycle as it was; and a pending frame leaves the buffer only by being
\* taken into the batch of a newly started cycle, or when the call is torn down or
\* started again
C7_FramesDuringCycleAreKept ==
  [][ /\ \A k \in Conns :
           LET sid == conns[k].callSid IN
           ( /\ MediaRunStep(k)
             /\ sid # NoSid
             /\ MapHas(activeCalls, sid)
             /\ sessions[activeCalls[sid]].isProcessing ) =>
               /\ audioBuffers'[sid] = audioBuffers[sid] \o RunFrames(k)
               /\ cycles' = cycles
      /\ \A sid \in DOMAIN audioBuffers :
           \A f \in Frames(audioBuffers[sid]) :
             \/ /\ MapHas(audioBuffers', sid)
                /\ f \in Frames(audioBuffers'[sid])
             \/ /\ Len(cycles') = Len(cycles) + 1
                /\ cycles'[Len(cycles')].sid = sid
                /\ f \in Frames(cycles'[Len(cycles')].batch)
             \/ ~MapHas(activeCalls', sid)
             \/ activeCalls'[sid] # activeCalls[sid]
    ]_vars

\* a second cycle of a session has taken frames that were pending while the
\* first was in flight, or such frames are pending now
C7_Witness ==
  \E c \in 1..Len(cycles) :
    /\ InFlight(c)
    /\ Registered(cycles[c].sess)
    /\ MapHas(audioBuffers, cycles[c].sid)
    /\ Len(audioBuffers[cycles[c].sid]) >= FrameRun

\* the connections that sent a start message for sid
StartedOn(sid) == {sessions[o].ws : o \in {i \in 1..Len(sessions) : sessions[i].sid = sid}}

\* C8: every frame in a call's pending buffer, and in every batch handed to
\* transcription for it, was received on a connection that started that call; so
\* for calls with distinct callSids on different connections, on the call's own
\* connection
C8_BufferIsolation ==
  /\ \A sid \in DOMAIN audioBuffers :
       \A f \in Frames(audioBuffers[sid]) : f[1] \in StartedOn(sid)
  /\ \A c \in 1..Len(cycles) :
       \A f \in Frames(cycles[c].batch) : f[1] \in StartedOn(cycles[c].sid)

\* two calls on two connections, each started once, both with frames in flight
C8_Witness ==
  \E c1, c2 \in 1..Len(cycles) :
    /\ cycles[c1].sid # cycles[c2].sid
    /\ InFlight(c1) /\ InFlight(c2)
    /\ sessions[cycles[c1].sess].ws # sessions[cycles[c2].sess].ws
    /\ Len(sessions) = 2
    /\ Len(cycles[c1].batch) > 0 /\ Len(cycles[c2].batch) > 0

\* C9: while another call's cycle is suspended awaiting transcription, a run of
\* frames for an active call B is appended to B's buffer, and B's flush starts
\* whenever B's own session is idle and B's own buffer and timing call for it
C9_IndependentProgress ==
  [][ \A k \in Conns :
        LET B == conns[k].callSid IN
        ( /\ MediaRunStep(k)
          /\ B # NoSid
          /\ MapHas(activeCalls, B)
          /\ \E a \in 1..Len(cycles) : cycles[a].sid # B /\ cycles[a].stage = "stt" ) =>
            LET o == activeCalls[B]
                grown == audioBuffers[B] \o RunFrames(k)
            IN IF ~sessions[o].isProcessing /\ ShouldProcessAudio(sessions[o], Len(grown), now)
               THEN /\ Len(cycles') = Len(cycles) + 1
                    /\ cycles'[Len(cycles')].sess = o
                    /\ cycles'[Len(cycles')].stage = "stt"
                    /\ cycles'[Len(cycles')].batch \o audioBuffers'[B] = grown
               ELSE /\ cycles' = cycles
                    /\ audioBuffers'[B] = grown
    ]_vars

\* call B's cycle started after call A's and has completed while A's is still
\* awaiting transcription
C9_Witness ==
  \E a, b \in 1..Len(cycles) :
    /\ a < b
    /\ cycles[a].sid # cycles[b].sid
    /\ cycles[a].stage = "stt"
    /\ cycles[b].stage = "done"

\* this step is a failure in cycle c: transcription, reply generation or synthesis
FailureStep(c) ==
  \/ TranscribeDone(c, [ok |-> FALSE, text |-> <<>>])
  \/ ReplyDone(c, FALSE)
  \/ SpeechPrimary(c, Fail)
  \/ SpeechFallback(c, Fail)

\* C10: a failure in a cycle changes no registry, no buffer, no conversation
\* memory and no session other than the cycle's own; and a callSid leaves
\* activeCalls only in a cleanupCall for it (stop message or socket close)
C10_FailureIsolation ==
  [][ /\ \A c \in 1..Len(cycles) :
           FailureStep(c) =>
             /\ UNCHANGED <<activeCalls, audioBuffers, conversationMemory, memories>>
             /\ \A o \in 1..Len(sessions) : o # cycles[c].sess => sessions'[o] = sessions[o]
      /\ \A sid \in CallSids :
           (MapHas(activeCalls, sid) /\ ~MapHas(activeCalls', sid)) => CleanupStep(sid)
    ]_vars

\* reply generation and then the primary synthesis have failed in a cycle whose
\* call is still registered, next to another registered call
C10_Witness ==
  \E c \in 1..Len(cycles) :
    /\ cycles[c].stage = "tts2"
    /\ cycles[c].text = "apology"
    /\ Registered(cycles[c].sess)
    /\ \E sid \in DOMAIN activeCalls : sid # cycles[c].sid

\* this step completes cycle c and starts an outbound stream for it
SpeaksAndEnds(c) ==
  /\ cycles[c].stage \in {"tts1", "tts2"}
  /\ cycles'[c].stage = "done"
  /\ Len(streams') = Len(streams) + 1
  /\ streams'[Len(streams')].wrote > 0

\* C11: a failed turn produces silence. A step in which transcription, reply
\* generation or synthesis fails sends nothing and leaves the call registered, and
\* a cycle whose reply generation failed ends without sending any media message
C11_FailedTurnIsSilent ==
  [][ \A c \in 1..Len(cycles) :
        /\ FailureStep(c) => UNCHANGED <<streams, activeCalls>>
        /\ cycles[c].text = "apology" => ~SpeaksAndEnds(c)
    ]_vars

\* ------------------------------------------------ malformed and unknown messages
\* mutant of DiscardMessage: the catch block tears the connection down
DiscardMessageAndClose(cs, k) == [cs EXCEPT ![k].junk = @ + 1, ![k].state = "closed"]

\* the catch block of ws.on('message') after JSON.parse throws, and the default
\* case of handleStreamMessage: the message is logged and nothing else happens
DiscardMessage(cs, k) == [cs EXCEPT ![k].junk = @ + 1]

\* the kinds of message the handler has no case for
JunkKinds == {"malformed", "unknown"}

\* ws.on('message') for a message that is not JSON or whose event is not known
HandleJunkMessage(k, kind) ==
  /\ Step
  /\ conns[k].state = "open"
  /\ kind \in JunkKinds
  /\ conns[k].junk < MaxJunk
  /\ conns' = DiscardMessage(conns, k)
  /\ UNCHANGED <<now, sessions, memories, activeCalls, audioBuffers, conversationMemory,
                 greetings, cycles, streams, timers, nTicks, nStops, nRuns>>

NextMsg ==
  \/ Next
  \/ \E k \in Conns, kind \in JunkKinds : HandleJunkMessage(k, kind)

SpecMsg == Init /\ [][NextMsg]_vars

\* this step discards a message on connection k
JunkStep(k) == conns'[k].junk = conns[k].junk + 1

\* C12: a message that is not valid JSON or has an unknown event kind is discarded:
\* the connection stays open and bound to its call, and the three stores, the
\* sessions and the buffered frames are unchanged; and a later run of media frames
\* on that connection, for a call that is streaming on it, is buffered or flushed
\* exactly as the flush policy says
C12_JunkIsDiscarded ==
  [][ \A k \in Conns :
        /\ JunkStep(k) =>
             /\ conns'[k].state = "open"
             /\ conns'[k].callSid = conns[k].callSid
             /\ UNCHANGED <<activeCalls, audioBuffers, conversationMemory, sessions,
                            memories, cycles, streams, timers>>
        /\ LET sid == conns[k].callSid IN
           ( /\ conns[k].junk > 0
             /\ MediaRunStep(k)
             /\ sid # NoSid
             /\ MapHas(activeCalls, sid) ) =>
               LET o == activeCalls[sid]
                   grown == audioBuffers[sid] \o RunFrames(k)
               IN IF ~sessions[o].isProcessing /\ ShouldProcessAudio(sessions[o], Len(grown), now)
                  THEN /\ Len(cycles') = Len(cycles) + 1
                       /\ cycles'[Len(cycles')].sess = o
                       /\ cycles'[Len(cycles')].batch \o audioBuffers'[sid] = grown
                  ELSE /\ cycles' = cycles
                       /\ audioBuffers'[sid] = grown
    ]_vars

\* a message has been discarded on a connection that is still open, and a run of
\* frames on that connection has flushed more than one run's worth of frames
\* into a cycle that is awaiting transcription
C12_Witness ==
  \E k \in Conns, c \in 1..Len(cycles) :
    /\ conns[k].junk > 0
    /\ conns[k].state = "open"
    /\ cycles[c].ws = k
    /\ cycles[c].stage = "stt"
    /\ Len(cycles[c].batch) > FrameRun

\* ------------------------------------------------------- the flush policy alone
\* thresholds of the conservative profile
ConservativeMinFlushMs == 3000
ConservativeMaxSilenceGapMs == 5000
ConservativeMinAudioFloorMs == 1000

\* shouldProcessAudio of the conservative profile
ShouldProcessAudioConservative(callSession, bufLen, t) ==
  LET bufferDuration == bufLen * FrameMs
      timeSinceLastProcess == t - callSession.lastProcessTime
  IN \/ bufferDuration >= ConservativeMinFlushMs
     \/ /\ timeSinceLastProcess >= ConservativeMaxSilenceGapMs
        /\ bufferDuration >= ConservativeMinAudioFloorMs
        /\ ~callSession.isProcessing

\* largest buffer (frames) the policy is called with
MaxPolicyFrames == 151
\* a session that has never flushed: lastProcessTime is undefined
Never == 0 - 1
\* the times (ms) since the last flush the policy is called with
PolicyGaps == {0, MaxSilenceGapMs - 1, MaxSilenceGapMs, 4000,
               ConservativeMaxSilenceGapMs - 1, ConservativeMaxSilenceGapMs, Never}
Profiles == {"aggressive", "conservative"}

PolicyInputs ==
  [profile : Profiles, isProcessing : BOOLEAN, since : PolicyGaps, frames : 0..MaxPolicyFrames]

\* the session object the policy reads; an undefined lastProcessTime reads as 0
PolicySession(x) ==
  [isProcessing |-> x.isProcessing,
   lastProcessTime |-> IF x.since = Never THEN 0 ELSE now - x.since]

InitPolicy ==
  /\ Service
  /\ arg \in {<<x>> : x \in PolicyInputs}
  /\ res = NoCall

\* shouldProcessAudio(callSession, audioBuffer) called on the aggressive service
CallShouldProcessAudio ==
  /\ res = NoCall
  /\ arg[1].profile = "aggressive"
  /\ res' = <<ShouldProcessAudio(PolicySession(arg[1]), arg[1].frames, now)>>
  /\ UNCHANGED <<now, conns, sessions, memories, activeCalls, audioBuffers, conversationMemory,
                 greetings, cycles, streams, timers, nTicks, nStops, nRuns, steps, arg>>

\* shouldProcessAudio(callSession, audioBuffer) called on the conservative service
CallShouldProcessAudioConservative ==
  /\ res = NoCall
  /\ arg[1].profile = "conservative"
  /\ res' = <<ShouldProcessAudioConservative(PolicySession(arg[1]), arg[1].frames, now)>>
  /\ UNCHANGED <<now, conns, sessions, memories, activeCalls, audioBuffers, conversationMemory,
                 greetings, cycles, streams, timers, nTicks, nStops, nRuns, steps, arg>>

NextPolicy ==
  \/ CallShouldProcessAudio
  \/ CallShouldProcessAudioConservative

SpecPolicy == InitPolicy /\ [][NextPolicy]_vars

\* the policy as stated: flush when the buffered duration reaches minFlush, or when
\* the time since the last flush reaches maxGap and the buffered duration reaches
\* the floor and no cycle is in flight
StatedPolicy(duration, sinceLast, busy, minFlush, maxGap, floor) ==
  \/ duration >= minFlush
  \/ sinceLast >= maxGap /\ duration >= floor /\ ~busy

\* the time since the last flush; for a session that has never flushed it is the
\* time since the epoch
SinceLast(x) == IF x.since = Never THEN now ELSE x.since

Forty == 40

\* ws.on('message') for forty consecutive media messages on connection k
MediaForty(k) ==
  /\ Step
  /\ conns[k].state = "open"
  /\ nRuns < MaxRuns
  /\ nRuns' = nRuns + 1
  /\ LET S0 == [sessions |-> sessions, audioBuffers |-> audioBuffers, cycles |-> cycles]
     IN \E S1 \in {MediaFrames(S0, k, conns[k].callSid, conns[k].sent + 1, Forty, now)} :
        /\ Len(S1.cycles) <= MaxCycles
        /\ sessions' = S1.sessions
        /\ audioBuffers' = S1.audioBuffers
        /\ cycles' = S1.cycles
  /\ conns' = [conns EXCEPT ![k].sent = @ + Forty]
  /\ UNCHANGED <<now, memories, activeCalls, conversationMemory, greetings,
                 streams, timers, nTicks, nStops>>

NextForty ==
  \/ \E k \in Conns : Connect(k)
  \/ \E k \in Conns, sid \in CallSids : HandleStreamStart(k, sid)
  \/ \E g \in 1..MaxStarts, len \in TtsOutcomes : GreetingPrimary(g, len)
  \/ \E g \in 1..MaxStarts, len \in TtsOutcomes : GreetingFallback(g, len)
  \/ \E k \in Conns : MediaForty(k)
  \/ \E c \in 1..MaxCycles, outcome \in WhisperOutcomes : TranscribeDone(c, outcome)
  \/ \E c \in 1..MaxCycles, ok \in BOOLEAN : ReplyDone(c, ok)
  \/ \E c \in 1..MaxCycles, len \in TtsOutcomes : SpeechPrimary(c, len)
  \/ \E c \in 1..MaxCycles, len \in TtsOutcomes : SpeechFallback(c, len)
  \/ \E s \in 1..(MaxStarts + MaxCycles) : SendChunk(s)
  \/ \E k \in Conns, sid \in CallSids : HandleStreamStop(k, sid)
  \/ \E k \in Conns : Close(k)
  \/ EvictMemory
  \/ \E d \in TickSteps : Tick(d)

SpecForty == Init /\ [][NextForty]_vars

\* this step handles forty media messages on connection k
MediaFortyStep(k) == conns'[k].sent = conns[k].sent + Forty

\* session o was started on connection k, is the registered session of its call,
\* has never flushed and has nothing buffered, and k has carried no media yet
FreshlyStarted(o, k) ==
  /\ sessions[o].ws = k
  /\ Registered(o)
  /\ sessions[o].lastProcessTime = 0
  /\ ~sessions[o].isProcessing
  /\ audioBuffers[sessions[o].sid] = <<>>
  /\ conns[k].sent = 0
  /\ \A p \in 1..Len(sessions) : sessions[p].ws = k => p = o

\* C15: forty consecutive frames delivered to a freshly started call trigger exactly
\* one cycle for it, and its session's isProcessing is true while that cycle runs
C15_FortyFramesOneCycle ==
  [][ \A k \in Conns : \A o \in 1..Len(sessions) :
        (FreshlyStarted(o, k) /\ MediaFortyStep(k)) =>
           /\ Len(cycles') = Len(cycles) + 1
           /\ cycles'[Len(cycles')].sess = o
           /\ cycles'[Len(cycles')].stage = "stt"
           /\ sessions'[o].isProcessing
    ]_vars

\* the same once the start message has been handled to its end (greeting done)
FortyFramesAfterGreeting ==
  [][ \A k \in Conns : \A o \in 1..Len(sessions) :
        (FreshlyStarted(o, k) /\ MediaFortyStep(k) /\ conns[k].callSid = sessions[o].sid) =>
           /\ Len(cycles') = Len(cycles) + 1
           /\ cycles'[Len(cycles')].sess = o
           /\ cycles'[Len(cycles')].stage = "stt"
           /\ sessions'[o].isProcessing
    ]_vars

\* C16: when transcription fails or yields an empty or whitespace-only transcript,
\* the cycle ends there: no message is appended to any conversation memory, the
\* cycle never reaches reply generation or synthesis, and no stream is started
C16_NoTranscriptNoEffects ==
  [][ \A c \in 1..Len(cycles) : \A outcome \in WhisperOutcomes :
        ( /\ TranscribeDone(c, outcome)
          /\ \/ ~outcome.ok
             \/ \A i \in 1..Len(outcome.text) : outcome.text[i] = " " ) =>
            /\ cycles'[c].stage = "done"
            /\ ~sessions'[cycles[c].sess].isProcessing
            /\ UNCHANGED <<memories, conversationMemory, streams, activeCalls, audioBuffers>>
    ]_vars

\* a cycle of a registered call has ended, the call's memory holds no message and
\* no stream but the greeting's was started
C16_Witness ==
  \E c \in 1..Len(cycles) :
    /\ cycles[c].stage = "done"
    /\ Registered(cycles[c].sess)
    /\ MapHas(conversationMemory, cycles[c].sid)
    /\ memories[conversationMemory[cycles[c].sid]].messages = <<>>
    /\ Len(streams) = 1
    /\ Len(cycles) = 1

\* --------------------------------------------------------------- mu-law codec
\* the values of a byte
Bytes == 0..255

\* the per-sample decode of convertMulawToWav, up to the clamp
MulawToLinear(mulaw) ==
  LET sign == IF (mulaw \div 128) % 2 = 1 THEN 0 - 1 ELSE 1
      exponent == (mulaw \div 16) % 8
      mantissa == mulaw % 16
      shifted == (mantissa + 16) * 2^(exponent + 3)
      sample == shifted * sign
  IN IF sample > 32767 THEN 32767 ELSE IF sample < 0 - 32768 THEN 0 - 32768 ELSE sample

\* exp_lut of linearToMulaw
ExpLut == <<256, 512, 1024, 2048, 4096, 8192, 16384, 32768>>

\* the for loop of linearToMulaw: exponent counts down from 7 while it is positive
\* and sample < exp_lut[exponent - 1]
RECURSIVE MulawExponent(_, _)
MulawExponent(sample, exponent) ==
  IF exponent > 0 /\ sample < ExpLut[exponent]
  THEN MulawExponent(sample, exponent - 1)
  ELSE exponent

\* linearToMulaw, its result (a negative 32-bit integer, from ~) as the byte that
\* mulawBuffer[i / 2] = ... stores
LinearToMulaw(sample0) ==
  LET sign == IF sample0 < 0 THEN 128 ELSE 0
      magnitude == IF sample0 < 0 THEN 0 - sample0 ELSE sample0
      biased == (IF magnitude > 8191 THEN 8191 ELSE magnitude) + 132
      exponent == MulawExponent(biased, 7)
      mantissa == (biased \div 2^(exponent + 3)) % 16
      complement == 0 - (sign + exponent * 16 + mantissa) - 1
  IN complement % 256

InitMulaw ==
  /\ Service
  /\ arg \in {<<b>> : b \in Bytes}
  /\ res = NoCall

\* the decode loop of convertMulawToWav for one sample
DecodeSample ==
  /\ Len(res) = 0
  /\ res' = <<MulawToLinear(arg[1])>>
  /\ UNCHANGED <<now, conns, sessions, memories, activeCalls, audioBuffers, conversationMemory,
                 greetings, cycles, streams, timers, nTicks, nStops, nRuns, steps, arg>>

\* pcmToMulaw for the decoded sample
EncodeSample ==
  /\ Len(res) = 1
  /\ res' = Append(res, LinearToMulaw(res[1]))
  /\ UNCHANGED <<now, conns, sessions, memories, activeCalls, audioBuffers, conversationMemory,
                 greetings, cycles, streams, timers, nTicks, nStops, nRuns, steps, arg>>

\* the decode loop of convertMulawToWav for the re-encoded byte
DecodeAgain ==
  /\ Len(res) = 2
  /\ res' = Append(res, MulawToLinear(res[2]))
  /\ UNCHANGED <<now, conns, sessions, memories, activeCalls, audioBuffers, conversationMemory,
                 greetings, cycles, streams, timers, nTicks, nStops, nRuns, steps, arg>>

NextMulaw ==
  \/ DecodeSample
  \/ EncodeSample
  \/ DecodeAgain

SpecMulaw == InitMulaw /\ [][NextMulaw]_vars

\* C17: decoding a byte from mu-law to 16-bit linear PCM and encoding the result
\* back to mu-law returns the byte, for every byte 0..255
C17_MulawRoundTrip ==
  Len(res) = 2 => res[2] = arg[1]

\* the round trip returns the byte for no byte at all
MulawRoundTripNeverExact ==
  Len(res) = 2 => res[2] # arg[1]

\* ----------------------------------------------------------------- WAV framing
\* Buffer.write of the four-character tags, as ASCII codes
Riff == <<82, 73, 70, 70>>
Wave == <<87, 65, 86, 69>>
Fmt == <<102, 109, 116, 32>>
Data == <<100, 97, 116, 97>>

\* writeUInt32LE, writeUInt16LE and writeInt16LE
UInt32LE(v) == <<v % 256, (v \div 256) % 256, (v \div 65536) % 256, (v \div 16777216) % 256>>
UInt16LE(v) == <<v % 256, (v \div 256) % 256>>
Int16LE(v) == UInt16LE(v % 65536)

\* the 44-byte header both converters write: 8 kHz, 16 bit, mono
WavHeader(dataSize) ==
  Riff \o UInt32LE(36 + dataSize) \o Wave \o Fmt \o UInt32LE(16) \o UInt16LE(1) \o
  UInt16LE(1) \o UInt32LE(8000) \o UInt32LE(16000) \o UInt16LE(2) \o UInt16LE(16) \o
  Data \o UInt32LE(dataSize)

\* mutant of ConvertToWav: the data-chunk length field repeats the RIFF size
ConvertToWavRiffSizeTwice(audioBuffer) ==
  Riff \o UInt32LE(36 + Len(audioBuffer)) \o Wave \o Fmt \o UInt32LE(16) \o UInt16LE(1) \o
  UInt16LE(1) \o UInt32LE(8000) \o UInt32LE(16000) \o UInt16LE(2) \o UInt16LE(16) \o
  Data \o UInt32LE(36 + Len(audioBuffer)) \o audioBuffer

\* convertToWav
ConvertToWav(audioBuffer) == WavHeader(Len(audioBuffer)) \o audioBuffer

\* pcmBuffer of convertMulawToWav: pcmBuffer.writeInt16LE(sample, i * 2), two bytes
\* per input byte
DecodePcm(mulawBuffer) ==
  [j \in 1..(2 * Len(mulawBuffer)) |->
     Int16LE(MulawToLinear(mulawBuffer[(j + 1) \div 2]))[IF j % 2 = 1 THEN 1 ELSE 2]]

\* convertMulawToWav
ConvertMulawToWav(mulawBuffer) ==
  LET pcmBuffer == DecodePcm(mulawBuffer)
  IN WavHeader(Len(pcmBuffer)) \o pcmBuffer

\* the WAV detection of streamAudioToTwilio: pcmData
UnwrapWav(audioBuffer) ==
  IF Len(audioBuffer) > 44 /\ SubSeq(audioBuffer, 1, 4) = Riff
  THEN SubSeq(audioBuffer, 45, Len(audioBuffer))
  ELSE audioBuffer

\* longest payload (bytes) a converter is called with
MaxPayload == 230
\* the payloads: n bytes that start at a seed and step by 37
Seeds == {0, 129}
Payload(n, seed) == [i \in 1..n |-> (seed + 37 * i) % 256]

InitWav ==
  /\ Service
  /\ arg \in {<<Payload(n, seed)>> : n \in 0..MaxPayload, seed \in Seeds}
  /\ res = NoCall

\* convertToWav(audioBuffer)
CallConvertToWav ==
  /\ Len(res) = 0
  /\ res' = <<"convertToWav", ConvertToWav(arg[1])>>
  /\ UNCHANGED <<now, conns, sessions, memories, activeCalls, audioBuffers, conversationMemory,
                 greetings, cycles, streams, timers, nTicks, nStops, nRuns, steps, arg>>

\* convertMulawToWav(mulawBuffer)
CallConvertMulawToWav ==
  /\ Len(res) = 0
  /\ res' = <<"convertMulawToWav", ConvertMulawToWav(arg[1])>>
  /\ UNCHANGED <<now, conns, sessions, memories, activeCalls, audioBuffers, conversationMemory,
                 greetings, cycles, streams, timers, nTicks, nStops, nRuns, steps, arg>>

\* streamAudioToTwilio handed the output of convertToWav, up to pcmData
CallUnwrapWav ==
  /\ Len(res) = 2
  /\ res[1] = "convertToWav"
  /\ res' = Append(res, UnwrapWav(res[2]))
  /\ UNCHANGED <<now, conns, sessions, memories, activeCalls, audioBuffers, conversationMemory,
                 greetings, cycles, streams, timers, nTicks, nStops, nRuns, steps, arg>>

NextWav ==
  \/ CallConvertToWav
  \/ CallConvertMulawToWav
  \/ CallUnwrapWav

SpecWav == InitWav /\ [][NextWav]_vars

\* the unsigned number four little-endian bytes stand for
FromLE32(b) == b[1] + 256 * b[2] + 65536 * b[3] + 16777216 * b[4]

\* C18: wrapping a payload yields a 44-byte header followed by the payload unchanged,
\* with RIFF at offset 0, WAVE at offset 8, the RIFF size field 36 + payload length
\* and the data-chunk length field the payload length; for convertToWav the payload
\* is the input, for convertMulawToWav the decoded PCM, twice as long as the input
C18_WavWrap ==
  Len(res) >= 2 =>
    LET wav == res[2]
        payload == IF res[1] = "convertToWav" THEN arg[1] ELSE DecodePcm(arg[1])
    IN /\ Len(wav) = 44 + Len(payload)
       /\ SubSeq(wav, 45, Len(wav)) = payload
       /\ SubSeq(wav, 1, 4) = <<82, 73, 70, 70>>
       /\ SubSeq(wav, 9, 12) = <<87, 65, 86, 69>>
       /\ FromLE32(SubSeq(wav, 5, 8)) = 36 + Len(payload)
       /\ FromLE32(SubSeq(wav, 41, 44)) = Len(payload)
       /\ res[1] = "convertMulawToWav" => Len(payload) = 2 * Len(arg[1])
       /\ \A i \in 1..Len(wav) : wav[i] \in Bytes

\* convertMulawToWav has wrapped a payload long enough for its size fields to need
\* their second byte
C18_Witness ==
  /\ Len(res) = 2
  /\ res[1] = "convertMulawToWav"
  /\ Len(arg[1]) = MaxPayload
  /\ res[2][42] > 0

\* C19: unwrapping the result of wrapping a payload yields exactly the payload, for
\* every payload including the empty one
C19_WavRoundTrip ==
  Len(res) = 3 => res[3] = arg[1]

\* the round trip is exact for every payload but the empty one
WavRoundTripNonEmpty ==
  (Len(res) = 3 /\ arg[1] # <<>>) => res[3] = arg[1]

\* this step is the settling of a synthesis call of greeting g
GreetingStep(g) == greetings[g].stage # "done" /\ greetings'[g].stage # greetings[g].stage

\* C20: handling a start message registers under its callSid a new session that is
\* not processing, an empty pending buffer and a conversation memory with no
\* messages, the default businessId and an empty context, before any greeting audio
\* is produced; the greeting is then streamed to the socket the start arrived on,
\* with the session's streamSid; and a synthesis failure of the greeting leaves the
\* call registered
C20_StartRegistersThenGreets ==
  [][ /\ Len(sessions') > Len(sessions) =>
           LET o == Len(sessions')
               sid == sessions'[o].sid
           IN /\ o = Len(sessions) + 1
              /\ activeCalls'[sid] = o
              /\ ~sessions'[o].isProcessing
              /\ audioBuffers'[sid] = <<>>
              /\ memories'[conversationMemory'[sid]].messages = <<>>
              /\ memories'[conversationMemory'[sid]].businessId = "pizzakarachi"
              /\ DOMAIN memories'[conversationMemory'[sid]].context = {}
              /\ conversationMemory'[sid] = Len(memories) + 1
              /\ streams' = streams
              /\ Len(greetings') = Len(greetings) + 1
              /\ greetings'[Len(greetings')].sess = o
              /\ greetings'[Len(greetings')].conn = sessions'[o].ws
              /\ greetings'[Len(greetings')].stage = "tts1"
      /\ \A g \in 1..Len(greetings) :
           GreetingStep(g) =>
             /\ UNCHANGED <<activeCalls, audioBuffers, conversationMemory, sessions, memories>>
             /\ Len(streams') > Len(streams) =>
                  /\ Len(streams') = Len(streams) + 1
                  /\ streams'[Len(streams')].ws = sessions[greetings[g].sess].ws
                  /\ streams'[Len(streams')].streamSid = sessions[greetings[g].sess].streamSid
                  /\ streams'[Len(streams')].len > 0
             /\ Len(streams') = Len(streams) =>
                  \/ greetings'[g].stage = "tts2"
                  \/ greetings[g].stage = "tts2" /\ greetings'[g].stage = "done"
    ]_vars

\* both synthesis providers failed for a greeting, nothing was streamed, and the
\* call is still registered with its empty buffer and memory
C20_Witness ==
  \E g \in 1..Len(greetings) :
    /\ greetings[g].stage = "done"
    /\ streams = <<>>
    /\ Registered(greetings[g].sess)
    /\ audioBuffers[greetings[g].sid] = <<>>
    /\ memories[conversationMemory[greetings[g].sid]] = NewConversationMemory

\* every message handler of connection k has run to its end
HandlersFinished(k) ==
  /\ \A g \in 1..Len(greetings) : greetings[g].conn = k => greetings[g].stage = "done"
  /\ \A c \in 1..Len(cycles) : sessions[cycles[c].sess].ws = k => ~InFlight(c)

\* C21: once a connection's socket has closed and its message handlers have
\* finished, no session created by a start message on that connection is still
\* registered in activeCalls
C21_NoSessionAfterClose ==
  \A k \in Conns :
    (conns[k].state = "closed" /\ HandlersFinished(k)) =>
      \A o \in 1..Len(sessions) : sessions[o].ws = k => ~Registered(o)

\* C22: every callSid with an active session also has a conversation memory, also
\* when the session was started under the callSid of a call torn down less than the
\* grace delay earlier
C22_ActiveCallHasMemory ==
  \A sid \in DOMAIN activeCalls : MapHas(conversationMemory, sid)

\* C23: for a buffer of 10 frames (200 ms) and a session whose last processing was
\* at least 4000 ms ago, shouldProcessAudio returns true if the session is not
\* processing and false if it is
C23_TimeTriggerShortBuffer ==
  (res # NoCall /\ arg[1].frames = 10 /\ arg[1].since # Never /\ arg[1].since >= 4000) =>
    res[1] = ~arg[1].isProcessing

\* for a buffer of 10 frames shouldProcessAudio returns false in both profiles,
\* whatever the session
ShortBufferNeverFlushes ==
  (res # NoCall /\ arg[1].frames = 10) => res[1] = FALSE

\* callSid sid was started and has been neither stopped nor closed: a stop removes
\* the registration at once, so these are the registered calls whose socket has
\* not closed
StartedNotEnded(sid) ==
  \E o \in 1..Len(sessions) :
    sessions[o].sid = sid /\ Registered(o) /\ conns[sessions[o].ws].state = "open"

\* C24: getStats reads the two store sizes and changes nothing; its activeCalls is
\* the number of callSids started and not yet stopped or closed, and its
\* conversationsInMemory is the number of conversation memories retained
C24_StatsAccurate ==
  /\ GetStats.activeCalls = Cardinality({sid \in CallSids : StartedNotEnded(sid)})
  /\ GetStats.conversationsInMemory = Cardinality({sid \in CallSids : MapHas(conversationMemory, sid)})

\* the positions in a message list of the entries cycle c pushed with a role
TurnsOf(messages, c, role) ==
  {i \in 1..Len(messages) : messages[i].role = role /\ messages[i].content = c}

\* C25: the steps of a cycle happen in order. When transcription settles with
\* text, the user turn is appended to the call's memory, the reply generator is
\* pending and nothing is streamed; when the generator settles with a reply, the
\* assistant turn with its intent label is appended to that memory, synthesis is
\* pending and nothing is streamed; a stream is started for the cycle only when a
\* synthesis call settles, which leaves the memories alone. So each cycle adds at
\* most one user entry and then at most one assistant entry, the assistant entry
\* after the user entry
C25_PipelineOrder ==
  [][ \A c \in 1..Len(cycles) :
        /\ (cycles[c].stage = "stt" /\ cycles'[c].stage = "reply") =>
             LET m == conversationMemory[cycles[c].sid] IN
             /\ cycles'[c].mem = m
             /\ memories' = [memories EXCEPT ![m].messages = memories[m].messages \o
                                <<[role |-> "user", content |-> c]>>]
             /\ streams' = streams
        /\ (cycles[c].stage = "reply" /\ cycles'[c].stage = "tts1" /\ cycles'[c].text = "reply") =>
             LET m == cycles[c].mem IN
             /\ memories' = [memories EXCEPT ![m].messages = memories[m].messages \o
                                <<[role |-> "assistant", content |-> c, intent |-> "intent"]>>]
             /\ streams' = streams
        /\ (InFlight(c) /\ Len(streams') > Len(streams) /\ cycles'[c] # cycles[c]) =>
             /\ cycles[c].stage \in {"tts1", "tts2"}
             /\ cycles'[c].stage = "done"
             /\ memories' = memories
        /\ \A m \in 1..Len(memories') :
             LET msgs == memories'[m].messages
                 users == TurnsOf(msgs, c, "user")
                 assistants == TurnsOf(msgs, c, "assistant")
             IN /\ Cardinality(users) <= 1
                /\ Cardinality(assistants) <= 1
                /\ \A a \in assistants : \E u \in users : u < a
                /\ (cycles'[c].stage = "reply" /\ cycles'[c].mem = m) =>
                       Cardinality(users) = 1 /\ assistants = {}
    ]_vars

\* a cycle has run to its end with success: its memory holds the user turn and
\* then the assistant turn, and its reply was handed to the streamer after the
\* greeting
C25_Witness ==
  /\ Len(cycles) = 1
  /\ cycles[1].stage = "done"
  /\ Len(streams) = 2
  /\ \E m \in 1..Len(memories) :
       memories[m].messages = <<UserTurn(1), AssistantTurn(1)>>

\* C26: synthesis tries the primary provider and falls back to the secondary. The
\* secondary is invoked exactly when the primary returned no audio (failed or not
\* configured); a stream with the audio is started exactly when one of the two
\* returned audio; and when both fail nothing is streamed, no call is unregistered
\* and the cycle's session is no longer processing
C26_PrimaryThenFallback ==
  [][ \A c \in 1..Len(cycles) : \A len \in TtsOutcomes :
        /\ SpeechPrimary(c, len) =>
             /\ cycles'[c].stage = "tts2" <=> len = Fail
             /\ cycles'[c].stage = "done" <=> len # Fail
             /\ IF len = Fail
                THEN streams' = streams /\ sessions' = sessions
                ELSE /\ Len(streams') = Len(streams) + 1
                     /\ streams'[Len(streams')].len = len
                     /\ streams'[Len(streams')].ws = cycles[c].ws
                     /\ ~sessions'[cycles[c].sess].isProcessing
             /\ UNCHANGED activeCalls
        /\ SpeechFallback(c, len) =>
             /\ cycles'[c].stage = "done"
             /\ IF len = Fail
                THEN streams' = streams
                ELSE /\ Len(streams') = Len(streams) + 1
                     /\ streams'[Len(streams')].len = len
                     /\ streams'[Len(streams')].ws = cycles[c].ws
             /\ ~sessions'[cycles[c].sess].isProcessing
             /\ UNCHANGED activeCalls
        /\ cycles'[c].stage = "tts2" => cycles[c].stage \in {"tts1", "tts2"}
    ]_vars

\* a reply was generated, the primary provider returned no audio for it and the
\* secondary provider's answer is awaited; the call is registered
C26_Witness ==
  \E c \in 1..Len(cycles) :
    /\ cycles[c].stage = "tts2"
    /\ cycles[c].text = "reply"
    /\ Registered(cycles[c].sess)
    /\ sessions[cycles[c].sess].isProcessing
    /\ Len(streams) = 1

\* ------------------------------------------------------ the paced streamer alone
\* longest audio (bytes) the streamer is called with
MaxAudio == 12289
\* the connection and the streamSid the streamer is called with
StreamConn == 1
StreamSidUnderTest == 7

\* the media message a run of sendChunk has sent, if it sent one: the slice
\* audioBuffer.slice(offset, offset + chunkSize) taken before offset += chunkSize,
\* as the range of bytes [from, to) it holds
ChunkSent(before, after) ==
  IF after.wrote > before.wrote
  THEN <<[streamSid |-> after.streamSid,
          from |-> after.offset - ChunkSize,
          to |-> IF after.offset < after.len THEN after.offset ELSE after.len]>>
  ELSE <<>>

InitStream ==
  /\ Service
  /\ arg \in {<<n>> : n \in 0..MaxAudio}
  /\ res = NoCall

\* sendAudioToStreamRealtime(ws, streamSid, audioBuffer) on an open socket
CallSendAudioToStreamRealtime ==
  /\ conns[StreamConn].state = "open"
  /\ streams = <<>>
  /\ streams' = <<SendAudioToStreamRealtime(conns, StreamConn, StreamSidUnderTest, arg[1], 0)>>
  /\ res' = res \o ChunkSent(Finished, streams'[1])
  /\ UNCHANGED <<now, conns, sessions, memories, activeCalls, audioBuffers, conversationMemory,
                 greetings, cycles, timers, nTicks, nStops, nRuns, steps, arg>>

\* the setTimeout(sendChunk, 10) callback of that call
PacingTimer ==
  /\ streams # <<>>
  /\ streams[1].armed
  /\ streams' = [streams EXCEPT ![1] = NextChunk(@, conns)]
  /\ res' = res \o ChunkSent(streams[1], streams'[1])
  /\ UNCHANGED <<now, conns, sessions, memories, activeCalls, audioBuffers, conversationMemory,
                 greetings, cycles, timers, nTicks, nStops, nRuns, steps, arg>>

NextStream ==
  \/ Connect(StreamConn)
  \/ CallSendAudioToStreamRealtime
  \/ PacingTimer

SpecStream == InitStream /\ [][NextStream]_vars

\* ceil(n / c)
CeilDiv(n, c) == (n + c - 1) \div c

\* C27: for an audio of n bytes on a socket that stays open the streamer sends the
\* chunks in increasing offset order, each with the streamSid it was given and at
\* most 4096 bytes, the ranges joining up from byte 0 without gap or overlap; when
\* no timer is pending any more it has sent exactly ceil(n / 4096) messages (none
\* for n = 0) and they cover the whole audio
C27_ChunksCoverAudio ==
  LET n == arg[1] IN
  /\ \A i \in 1..Len(res) :
       /\ res[i].streamSid = StreamSidUnderTest
       /\ res[i].from < res[i].to
       /\ res[i].to - res[i].from <= 4096
       /\ res[i].to <= n
       /\ res[i].from = IF i = 1 THEN 0 ELSE res[i - 1].to
  /\ Len(res) <= CeilDiv(n, 4096)
  /\ (streams # <<>> /\ ~streams[1].armed) =>
       /\ Len(res) = CeilDiv(n, 4096)
       /\ n > 0 => res[Len(res)].to = n

\* the streamer has sent an audio of three chunks and one byte and has stopped
C27_Witness ==
  /\ arg[1] = 3 * ChunkSize + 1
  /\ streams # <<>>
  /\ ~streams[1].armed
  /\ Len(res) = 4
  /\ res[4].to - res[4].from = 1

\* ------------------------------------------------- frames outside STREAMING
\* connection k is not in the STREAMING state: no start message has been handled
\* on it, or every call started on it has since had its stop handled
OutsideStreaming(k) ==
  \A o \in 1..Len(sessions) : sessions[o].ws = k => sessions[o].stopped

\* C28: media frames received on a connection before any start message, or after
\* the stop of the call started on it has been handled, are discarded: they create
\* or change no pending buffer and begin no transcription
C28_FramesOutsideStreamingDiscarded ==
  [][\A k \in Conns :
       (MediaRunStep(k) /\ OutsideStreaming(k)) =>
         UNCHANGED <<audioBuffers, cycles, sessions>>]_vars

\* the part of C28 about a connection on which no start message was ever handled
FramesBeforeStartDiscarded ==
  [][\A k \in Conns :
       (MediaRunStep(k) /\ \A o \in 1..Len(sessions) : sessions[o].ws # k) =>
         UNCHANGED <<audioBuffers, cycles, sessions>>]_vars

\* the part of C28 about a stopped call whose callSid has not been started again
FramesAfterStopDiscarded ==
  [][\A k \in Conns :
       (MediaRunStep(k) /\ OutsideStreaming(k) /\ ~MapHas(activeCalls, conns[k].callSid)) =>
         UNCHANGED <<audioBuffers, cycles, sessions>>]_vars

\* ------------------------------------------------------- draining of frames
\* the frames of the batches of cycles cs that belong to callSid sid, in cycle order
RECURSIVE Drained(_, _)
Drained(cs, sid) ==
  IF cs = <<>> THEN <<>>
  ELSE (IF Head(cs).sid = sid THEN Head(cs).batch ELSE <<>>) \o Drained(Tail(cs), sid)

\* the frames of each connection occur in q in the order of their arrival on it,
\* so no frame occurs twice
InArrivalOrder(q) ==
  \A k \in Conns :
    LET s == SelectSeq(q, LAMBDA f : f[1] = k)
    IN \A i \in 1..(Len(s) - 1) : s[i][2] < s[i + 1][2]

\* the cycles begun by the step being taken
NewCycles == SubSeq(cycles', Len(cycles) + 1, Len(cycles'))

\* C29: the frames of a call are drained in arrival order and without
\* duplication. A run of frames received for an active call extends what was
\* pending: the batch flushed during the run, if any, followed by what is pending
\* after it, is what was pending before followed by the run's frames in order;
\* a batch handed to transcription never changes while its cycle runs; and the
\* batches in flight followed by the pending frames hold every frame once, each
\* connection's frames in the order received
C29_FramesDrainedInOrder ==
  [][/\ \A k \in Conns :
          (/\ MediaRunStep(k)
           /\ conns[k].callSid # NoSid
           /\ MapHas(activeCalls, conns[k].callSid)) =>
            /\ Drained(NewCycles, conns[k].callSid) \o audioBuffers'[conns[k].callSid]
                 = audioBuffers[conns[k].callSid] \o RunFrames(k)
            /\ SubSeq(cycles', 1, Len(cycles)) = cycles
            /\ InArrivalOrder(Drained(cycles', conns[k].callSid)
                                \o audioBuffers'[conns[k].callSid])
     /\ \A c \in 1..Len(cycles) :
          InFlight(c) => (cycles'[c].batch = cycles[c].batch \/ ~InFlight(c)')]_vars

\* a call has been flushed twice: its first cycle is over, its second holds the
\* 40 frames received after the first batch, and the 10 frames received since
\* are pending
C29_Witness ==
  /\ Len(cycles) = 2
  /\ cycles[1].sess = cycles[2].sess
  /\ ~InFlight(1)
  /\ InFlight(2)
  /\ cycles[2].batch = [i \in 1..(MinFlushMs \div FrameMs) |-> <<cycles[2].ws, FrameRun + i>>]
  /\ MapHas(audioBuffers, cycles[2].sid)
  /\ Len(audioBuffers[cycles[2].sid]) = 2 * FrameRun - (MinFlushMs \div FrameMs)

\* ------------------------------------------------ frames after the start message
\* the session created by the last start message received on connection k (0: none)
LastStartOn(k) ==
  LET own == {o \in 1..Len(sessions) : sessions[o].ws = k}
  IN IF own = {} THEN 0 ELSE CHOOSE o \in own : \A p \in own : p <= o

\* C30: every media frame received on a connection after its start message is
\* appended to the pending buffer of the call that start created, also while the
\* start message is still being handled (greeting pending): after a run of frames
\* the batch flushed in the run, if any, followed by the pending frames is what
\* was pending before followed by the run's frames
C30_FramesAfterStartBuffered ==
  [][\A k \in Conns :
       (/\ MediaRunStep(k)
        /\ LastStartOn(k) # 0
        /\ Registered(LastStartOn(k))) =>
         LET sid == sessions[LastStartOn(k)].sid
         IN Drained(NewCycles, sid) \o audioBuffers'[sid]
              = audioBuffers[sid] \o RunFrames(k)]_vars

\* the part of C30 that holds: once the start handler has returned, the frames of
\* the connection reach the buffer of the call it started
FramesAfterGreetingBuffered ==
  [][\A k \in Conns :
       (/\ MediaRunStep(k)
        /\ LastStartOn(k) # 0
        /\ Registered(LastStartOn(k))
        /\ conns[k].callSid = sessions[LastStartOn(k)].sid) =>
         LET sid == sessions[LastStartOn(k)].sid
         IN Drained(NewCycles, sid) \o audioBuffers'[sid]
              = audioBuffers[sid] \o RunFrames(k)]_vars

\* ------------------------------------- RealTimeAIReceptionist (streaming-server-v2.js)
\* buffer.length >= 40 in processMediaFrame
V2FlushFrames == 40

\* this.conversationMemory.set(callSid, { messages: [] })
V2NewMemory == [messages |-> <<>>]

\* the start case of the message handler up to the await of sendImmediateGreeting:
\* the closure variables are assigned before anything is awaited
V2Start(k, sid) ==
  /\ Step
  /\ conns[k].state = "open"
  /\ Len(sessions) < MaxStarts
  /\ LET o == Len(sessions) + 1 IN
       /\ conns' = [conns EXCEPT ![k].callSid = sid]
       /\ sessions' = Append(sessions, [sid |-> sid, ws |-> k, streamSid |-> o,
                                        isProcessing |-> FALSE, lastProcessTime |-> 0,
                                        stopped |-> FALSE])
       /\ memories' = Append(memories, V2NewMemory)
       /\ activeCalls' = MapSet(activeCalls, sid, o)
       /\ audioBuffers' = MapSet(audioBuffers, sid, <<>>)
       /\ conversationMemory' = MapSet(conversationMemory, sid, o)
       /\ greetings' = Append(greetings, [conn |-> k, sid |-> sid, sess |-> o, stage |-> "tts1"])
  /\ UNCHANGED <<now, cycles, streams, timers, nTicks, nStops, nRuns>>

\* generateElevenLabsAudio settles inside sendImmediateGreeting (its own fallback to
\* generateOpenAIAudio touches no state): audio of len bytes, or null
V2Greeting(g, len) ==
  /\ Step
  /\ g \in 1..Len(greetings)
  /\ greetings[g].stage = "tts1"
  /\ streams' = IF len >= 0
                THEN Append(streams, SendAudioToStreamRealtime(conns, greetings[g].conn,
                              sessions[greetings[g].sess].streamSid, len, greetings[g].sess))
                ELSE streams
  /\ greetings' = [greetings EXCEPT ![g].stage = "done"]
  /\ UNCHANGED <<now, conns, sessions, memories, activeCalls, audioBuffers,
                 conversationMemory, cycles, timers, nTicks, nStops, nRuns>>

\* processMediaFrame for one frame, up to its first await (transcribeWithWhisper)
ProcessMediaFrame(S, sid, frame) ==
  IF ~MapHas(activeCalls, sid) THEN S
  ELSE LET o == activeCalls[sid] IN
    IF S.sessions[o].isProcessing THEN S
    ELSE LET buffer == Append(S.audioBuffers[sid], frame) IN
      IF Len(buffer) >= V2FlushFrames
      THEN [S EXCEPT !.sessions[o].isProcessing = TRUE,
                     !.audioBuffers = MapSet(@, sid, <<>>),
                     !.cycles = Append(@, [sid |-> sid, sess |-> o, ws |-> S.sessions[o].ws,
                                           batch |-> buffer, stage |-> "stt",
                                           mem |-> 0, target |-> o, text |-> "none"])]
      ELSE [S EXCEPT !.audioBuffers = MapSet(@, sid, buffer)]

\* n consecutive media messages of the call sid on connection k
RECURSIVE V2MediaFrames(_, _, _, _, _)
V2MediaFrames(S, k, sid, first, n) ==
  IF n = 0 THEN S
  ELSE LET S1 == ProcessMediaFrame(S, sid, <<k, first>>)
       IN IF Len(S1.cycles) >= Len(S.cycles)
          THEN V2MediaFrames(S1, k, sid, first + 1, n - 1)
          ELSE S1

\* the media case of the message handler for a run of frames on connection k:
\* if (sessionActive && callSid) processMediaFrame(callSid, data.media)
V2MediaRun(k) ==
  /\ Step
  /\ conns[k].state = "open"
  /\ nRuns < MaxRuns
  /\ nRuns' = nRuns + 1
  /\ LET S0 == [sessions |-> sessions, audioBuffers |-> audioBuffers, cycles |-> cycles]
     IN \E S1 \in {IF conns[k].callSid = NoSid THEN S0
                   ELSE V2MediaFrames(S0, k, conns[k].callSid, conns[k].sent + 1, FrameRun)} :
        /\ Len(S1.cycles) <= MaxCycles
        /\ sessions' = S1.sessions
        /\ audioBuffers' = S1.audioBuffers
        /\ cycles' = S1.cycles
  /\ conns' = [conns EXCEPT ![k].sent = @ + FrameRun]
  /\ UNCHANGED <<now, memories, activeCalls, conversationMemory, greetings,
                 streams, timers, nTicks, nStops>>

\* memory.messages.push({ role: 'user', content: userInput })
V2UserTurn(userInput) == [role |-> "user", content |-> userInput]

\* { role: 'system', content: systemPrompt }
V2SystemTurn == [role |-> "system", content |-> "systemPrompt"]

\* the number of entries generateAIResponse passes on: slice(-10)
V2ContextWindow == 10

\* mutant of SliceLast: the oldest n entries are taken
SliceFirst(q, n) == SubSeq(q, 1, IF Len(q) < n THEN Len(q) ELSE n)

\* Array.prototype.slice(-n)
SliceLast(q, n) == SubSeq(q, (IF Len(q) - n > 0 THEN Len(q) - n ELSE 0) + 1, Len(q))

\* the messages generateAIResponse hands to the chat completion, computed right
\* after the user turn was pushed on messages
V2Context(messages) == <<V2SystemTurn>> \o SliceLast(messages, V2ContextWindow)

\* transcribeWithWhisper settles; with a transcript, generateAIResponse runs up to
\* its await: the user turn is pushed on the call's memory
V2Transcribed(c, outcome) ==
  /\ Step
  /\ c \in 1..Len(cycles)
  /\ cycles[c].stage = "stt"
  /\ IF HasTranscript(outcome)
     THEN IF MapHas(conversationMemory, cycles[c].sid)
          THEN LET m == conversationMemory[cycles[c].sid] IN
               /\ memories' = [memories EXCEPT ![m].messages =
                                  Append(@, V2UserTurn(c))]
               /\ cycles' = [cycles EXCEPT ![c].stage = "reply", ![c].mem = m]
               /\ UNCHANGED sessions
          ELSE /\ cycles' = [cycles EXCEPT ![c].stage = "tts1", ![c].text = "apology"]
               /\ UNCHANGED <<memories, sessions>>
     ELSE /\ cycles' = [cycles EXCEPT ![c] = Returned(@)]
          /\ sessions' = EndCycle(sessions, cycles[c].sess)
          /\ UNCHANGED memories
  /\ UNCHANGED <<now, conns, activeCalls, audioBuffers, conversationMemory,
                 greetings, streams, timers, nTicks, nStops, nRuns>>

\* the chat completion settles inside generateAIResponse: the reply is pushed and
\* returned, or the rejection is caught and the apology returned; then
\* generateElevenLabsAudio is awaited
V2Replied(c, ok) ==
  /\ Step
  /\ c \in 1..Len(cycles)
  /\ cycles[c].stage = "reply"
  /\ memories' = IF ok
                 THEN [memories EXCEPT ![cycles[c].mem].messages =
                         Append(@, [role |-> "assistant", content |-> c])]
                 ELSE memories
  /\ cycles' = [cycles EXCEPT ![c].stage = "tts1",
                              ![c].text = IF ok THEN "reply" ELSE "apology"]
  /\ UNCHANGED <<now, conns, sessions, activeCalls, audioBuffers, conversationMemory,
                 greetings, streams, timers, nTicks, nStops, nRuns>>

\* generateElevenLabsAudio settles inside processMediaFrame: audio is streamed on the
\* session's socket, and the finally block clears isProcessing
V2Spoken(c, len) ==
  /\ Step
  /\ c \in 1..Len(cycles)
  /\ cycles[c].stage = "tts1"
  /\ streams' = IF len >= 0
                THEN Append(streams, SendAudioToStreamRealtime(conns, cycles[c].ws,
                              sessions[cycles[c].sess].streamSid, len, cycles[c].sess))
                ELSE streams
  /\ cycles' = [cycles EXCEPT ![c] = Returned(@)]
  /\ sessions' = EndCycle(sessions, cycles[c].sess)
  /\ UNCHANGED <<now, conns, memories, activeCalls, audioBuffers, conversationMemory,
                 greetings, timers, nTicks, nStops, nRuns>>

NextV2 ==
  \/ \E k \in Conns : Connect(k)
  \/ \E k \in Conns, sid \in CallSids : V2Start(k, sid)
  \/ \E g \in 1..MaxStarts, len \in TtsOutcomes : V2Greeting(g, len)
  \/ \E k \in Conns : V2MediaRun(k)
  \/ \E c \in 1..MaxCycles, outcome \in WhisperOutcomes : V2Transcribed(c, outcome)
  \/ \E c \in 1..MaxCycles, ok \in BOOLEAN : V2Replied(c, ok)
  \/ \E c \in 1..MaxCycles, len \in TtsOutcomes : V2Spoken(c, len)
  \/ \E s \in 1..(MaxStarts + MaxCycles) : SendChunk(s)

SpecV2 == Init /\ [][NextV2]_vars

\* C31: in RealTimeAIReceptionist no frame received for an active call is
\* discarded, also while the call's cycle is in flight: after a run of frames on a
\* connection bound to an active call every frame of the run is pending in the
\* call's buffer or is in the batch flushed during the run
C31_FramesDuringCycleBuffered ==
  [][\A k \in Conns :
       (/\ MediaRunStep(k)
        /\ conns[k].callSid # NoSid
        /\ MapHas(activeCalls, conns[k].callSid)) =>
         Frames(RunFrames(k)) \subseteq
           Frames(Drained(NewCycles, conns[k].callSid) \o audioBuffers'[conns[k].callSid])]_vars

\* the part of C31 that holds: the frames received while no cycle of the call is in
\* flight are buffered up to the flush
V2FramesOutsideCycleBuffered ==
  [][\A k \in Conns :
       (/\ MediaRunStep(k)
        /\ conns[k].callSid # NoSid
        /\ MapHas(activeCalls, conns[k].callSid)
        /\ ~sessions[activeCalls[conns[k].callSid]].isProcessing'
        /\ ~sessions[activeCalls[conns[k].callSid]].isProcessing) =>
         audioBuffers'[conns[k].callSid] = audioBuffers[conns[k].callSid] \o RunFrames(k)]_vars

\* ----------------------------------------------------- silence gap of a new call
\* C32: for a call that has never flushed, the silence gap is measured from the
\* session's start: while less than MaxSilenceGapMs has passed since the start (no
\* time has passed at all), a run of frames that leaves the call with less than
\* MinFlushMs of audio begins no cycle
C32_FirstGapFromSessionStart ==
  [][\A k \in Conns :
       (/\ MediaRunStep(k)
        /\ nTicks = 0
        /\ conns[k].callSid # NoSid
        /\ MapHas(activeCalls, conns[k].callSid)
        /\ sessions[activeCalls[conns[k].callSid]].lastProcessTime = 0
        /\ (Len(audioBuffers[conns[k].callSid]) + FrameRun) * FrameMs < MinFlushMs) =>
         cycles' = cycles]_vars

\* ------------------------------------------------ processAccumulatedAudio alone
\* the buffer lengths and flush times processAccumulatedAudio is entered with
SkipFrames == 0..6
SkipLastTimes == {0, StartNow - MaxSilenceGapMs, StartNow - 1}

\* a service with one call in progress on connection 1: n frames pending, the
\* session's flag and time of last processing as given
InitSkip ==
  /\ now = StartNow
  /\ \E n \in SkipFrames, sid \in CallSids, busy \in BOOLEAN, last \in SkipLastTimes,
        turns \in 0..1 :
       /\ conns = [k \in Conns |-> IF k = 1
                     THEN [state |-> "open", callSid |-> sid, sent |-> n, junk |-> 0]
                     ELSE [state |-> "idle", callSid |-> NoSid, sent |-> 0, junk |-> 0]]
       /\ sessions = <<[sid |-> sid, ws |-> 1, streamSid |-> 1, isProcessing |-> busy,
                        lastProcessTime |-> last, stopped |-> FALSE]>>
       /\ memories = <<[NewConversationMemory EXCEPT
                          !.messages = IF turns = 1 THEN <<UserTurn(0)>> ELSE <<>>]>>
       /\ activeCalls = MapSet(EmptyMap, sid, 1)
       /\ audioBuffers = MapSet(EmptyMap, sid, [i \in 1..n |-> <<1, i>>])
       /\ conversationMemory = MapSet(EmptyMap, sid, 1)
  /\ greetings = <<>>
  /\ cycles = <<>>
  /\ streams = <<>>
  /\ timers = <<>>
  /\ nTicks = 0
  /\ nStops = 0
  /\ nRuns = 0
  /\ steps = 0
  /\ arg = NoCall
  /\ res = NoCall

\* processAccumulatedAudio(ws, callSid, audioBuffer) entered with the call's pending
\* buffer, up to its return or its first await
CallProcessAccumulatedAudio ==
  /\ res = NoCall
  /\ \E sid \in DOMAIN activeCalls :
       LET S0 == [sessions |-> sessions, audioBuffers |-> audioBuffers, cycles |-> cycles]
           S1 == ProcessAccumulatedAudio(S0, sessions[activeCalls[sid]].ws, sid,
                                         audioBuffers[sid], now)
       IN /\ sessions' = S1.sessions
          /\ audioBuffers' = S1.audioBuffers
          /\ cycles' = S1.cycles
          /\ res' = <<Len(audioBuffers[sid])>>
  /\ UNCHANGED <<now, conns, memories, activeCalls, conversationMemory, greetings,
                 streams, timers, nTicks, nStops, nRuns, steps, arg>>

NextSkip == CallProcessAccumulatedAudio

SpecSkip == InitSkip /\ [][NextSkip]_vars

\* C33: the too-short skip has no side effects. When processAccumulatedAudio is
\* entered with fewer than 5 frames (less than MinViableMs of audio) no
\* transcription is begun and the pending buffer, the conversation memory and the
\* session's fields, the time of last processing among them, are as before
C33_ShortSkipNoSideEffects ==
  [][\A sid \in DOMAIN activeCalls :
       (res = NoCall /\ res' # NoCall /\ Len(audioBuffers[sid]) * FrameMs < MinViableMs) =>
         UNCHANGED <<cycles, audioBuffers, memories, conversationMemory, sessions>>]_vars

\* the part of C33 that holds: the skip begins no transcription, keeps the pending
\* buffer and the memory, and leaves the session's isProcessing flag as it was
ShortSkipKeepsBufferAndFlag ==
  [][\A sid \in DOMAIN activeCalls :
       (res = NoCall /\ res' # NoCall /\ Len(audioBuffers[sid]) * FrameMs < MinViableMs) =>
         /\ UNCHANGED <<cycles, audioBuffers, memories, conversationMemory>>
         /\ sessions'[1].isProcessing = sessions[1].isProcessing]_vars

\* ------------------------------------------- dialogue context of generateAIResponse
\* the lengths of the call's messages before the turn, and the transcripts
MaxMessages == 12
Transcripts == {"hello", "order", "hours"}

\* the messages of a call after some cycles: entry i has content i; in an
\* alternating dialogue the even entries are replies, in a dialogue whose replies
\* all failed every entry is a user turn
DialogueOf(n, alternating) ==
  [i \in 1..n |-> [role |-> IF alternating /\ i % 2 = 0 THEN "assistant" ELSE "user",
                   content |-> i]]

InitContext ==
  /\ Service
  /\ arg \in {<<[messages |-> DialogueOf(n, a), userInput |-> t]>> :
                n \in 0..MaxMessages, a \in BOOLEAN, t \in Transcripts}
  /\ res = NoCall

\* generateAIResponse(callSid, userInput) up to the chat completion: res is the
\* messages argument of the completion
CallGenerateAIResponse ==
  /\ res = NoCall
  /\ res' = <<V2Context(Append(arg[1].messages, V2UserTurn(arg[1].userInput)))>>
  /\ UNCHANGED <<now, conns, sessions, memories, activeCalls, audioBuffers, conversationMemory,
                 greetings, cycles, streams, timers, nTicks, nStops, nRuns, steps, arg>>

NextContext == CallGenerateAIResponse

SpecContext == InitContext /\ [][NextContext]_vars

\* C34: the context passed to the reply generator is the system prompt followed by
\* the most recent min(10, len) entries of the call's messages, oldest first, the
\* last of them the user turn just transcribed; no older entry is passed
C34_ContextIsLastTen ==
  res # NoCall =>
    LET messages == Append(arg[1].messages, V2UserTurn(arg[1].userInput))
        kept == IF Len(messages) < 10 THEN Len(messages) ELSE 10
        context == res[1]
    IN /\ Len(context) = 1 + kept
       /\ context[1] = V2SystemTurn
       /\ \A i \in 1..kept : context[1 + i] = messages[Len(messages) - kept + i]
       /\ context[Len(context)] = V2UserTurn(arg[1].userInput)

\* the context was built for a call with 12 earlier entries: the three oldest were
\* left out
C34_Witness ==
  /\ res # NoCall
  /\ Len(arg[1].messages) = MaxMessages
  /\ Len(res[1]) = 11
  /\ res[1][2] = arg[1].messages[4]

\* ------------------------------------------------ decode, encode, decode again
\* C35: for every byte b, decoding b, encoding the sample with linearToMulaw and
\* decoding the stored byte again gives the sample the first decoding gave
C35_DecodeEncodeDecode ==
  Len(res) = 3 => res[3] = res[1]

\* what the code does instead: for no byte does the second decoding give the
\* first sample
DecodeEncodeDecodeNeverSame ==
  Len(res) = 3 => res[3] # res[1]

\* ------------------------------------------------- socket write errors
\* the audio lengths the streamer is called with: up to ten chunks
WriteLens == {n * 1024 : n \in 0..40}

\* what ws.send(data) without a callback does on a socket that is not open: older
\* releases of ws throw "WebSocket is not open", newer ones return silently
WriteOutcomes == {"silent", "throws"}

\* process.on('uncaughtException') of StreamingServer.setupShutdown: the error is
\* logged and shutdown('EXCEPTION') stops the service and exits the process
UncaughtException(events) == events \o <<"uncaughtException", "shutdown">>

\* the catch block of sendAudioToStreamRealtime: the error is logged
CaughtBySender(events) == Append(events, "caught")

InitWrite ==
  /\ Service
  /\ arg \in {<<n>> : n \in WriteLens}
  /\ res = NoCall

\* sendAudioToStreamRealtime(ws, streamSid, audioBuffer) on a socket that is open or
\* has closed: the first sendChunk() runs inside the try block
SendWithWriteErrors(outcome) ==
  /\ conns[StreamConn].state \in {"open", "closed"}
  /\ streams = <<>>
  /\ IF 0 < arg[1] /\ ~SocketOpen(conns, StreamConn) /\ outcome = "throws"
     THEN /\ streams' = <<Finished>>
          /\ res' = CaughtBySender(res)
     ELSE /\ streams' = <<SendAudioToStreamRealtime(conns, StreamConn, StreamSidUnderTest,
                                                    arg[1], 0)>>
          /\ res' = res
  /\ UNCHANGED <<now, conns, sessions, memories, activeCalls, audioBuffers, conversationMemory,
                 greetings, cycles, timers, nTicks, nStops, nRuns, steps, arg>>

\* the setTimeout(sendChunk, 10) callback: it runs from the timer, outside the try
\* block of sendAudioToStreamRealtime, so what ws.send throws nobody catches
TimerWithWriteErrors(outcome) ==
  /\ streams # <<>>
  /\ streams[1].armed
  /\ IF streams[1].offset < streams[1].len /\ ~SocketOpen(conns, StreamConn)
        /\ outcome = "throws"
     THEN /\ streams' = <<Finished>>
          /\ res' = UncaughtException(res)
     ELSE /\ streams' = [streams EXCEPT ![1] = NextChunk(@, conns)]
          /\ res' = res
  /\ UNCHANGED <<now, conns, sessions, memories, activeCalls, audioBuffers, conversationMemory,
                 greetings, cycles, timers, nTicks, nStops, nRuns, steps, arg>>

NextWrite ==
  \/ Connect(StreamConn)
  \/ Close(StreamConn)
  \/ \E outcome \in WriteOutcomes : SendWithWriteErrors(outcome)
  \/ \E outcome \in WriteOutcomes : TimerWithWriteErrors(outcome)

SpecWrite == InitWrite /\ [][NextWrite]_vars

FirstWriteErrorCaught ==
  [][/\ (streams = <<>> /\ streams' # <<>> /\ res' # res) => res' = <<"caught">>
     /\ res # NoCall => (streams' = streams /\ res' = res)]_vars

\* ------------------------------------------------- payloads on one socket
\* C37: two payloads streamed to the same call on its socket are not interleaved:
\* a chunk of the earlier payload is never written after a chunk of the later one
C37_PayloadsNotInterleaved ==
  [][\A s1, s2 \in 1..Len(streams) :
       (/\ s1 < s2
        /\ streams[s1].ws = streams[s2].ws
        /\ streams[s1].owner = streams[s2].owner
        /\ streams'[s1].wrote > streams[s1].wrote) =>
         streams[s2].wrote = 0]_vars

\* ------------------------------------------------- stop and connection identity
\* C38: a stop message tears down only the call of the connection it arrives on. A
\* stop received on connection k that names the callSid of a call streaming on
\* another connection leaves that call's registration, pending buffer and
\* conversation memory, and the eviction schedule, unchanged
C38_StopRespectsConnection ==
  [][\A k \in Conns, sid \in CallSids :
       (/\ HandleStreamStop(k, sid)
        /\ MapHas(activeCalls, sid)
        /\ sessions[activeCalls[sid]].ws # k) =>
         UNCHANGED <<activeCalls, audioBuffers, conversationMemory, timers>>]_vars

\* ------------------------------------------------- dialogue in the memory
\* the service after a connection was accepted, start{callSid: CA1} was handled on
\* it and the greeting was synthesized and its first chunk sent
CallGreeted ==
  /\ now = StartNow
  /\ conns = [k \in Conns |-> IF k = 1
                THEN [state |-> "open", callSid |-> "CA1", sent |-> 0, junk |-> 0]
                ELSE [state |-> "idle", callSid |-> NoSid, sent |-> 0, junk |-> 0]]
  /\ sessions = <<[sid |-> "CA1", ws |-> 1, streamSid |-> 1, isProcessing |-> FALSE,
                   lastProcessTime |-> 0, stopped |-> FALSE]>>
  /\ memories = <<NewConversationMemory>>
  /\ activeCalls = MapSet(EmptyMap, "CA1", 1)
  /\ audioBuffers = MapSet(EmptyMap, "CA1", <<>>)
  /\ conversationMemory = MapSet(EmptyMap, "CA1", 1)
  /\ greetings = <<[conn |-> 1, sid |-> "CA1", sess |-> 1, stage |-> "done"]>>
  /\ cycles = <<>>
  /\ streams = <<[ws |-> 1, streamSid |-> 1, len |-> ChunkSize + 1, offset |-> ChunkSize,
                  armed |-> TRUE, wrote |-> 1, owner |-> 1]>>
  /\ timers = <<>>
  /\ nTicks = 0
  /\ nStops = 0
  /\ nRuns = 0
  /\ arg = NoCall
  /\ res = NoCall

\* the events that follow the greeting of a first call
InitDialogue == CallGreeted /\ steps = 0

SpecDialogue == InitDialogue /\ [][Next]_vars

\* C39: the messages of every call's conversation memory are a well-formed
\* dialogue: each assistant entry comes right after the user entry of its own
\* cycle, so none comes first and no two are adjacent
C39_DialogueWellFormed ==
  \A sid \in DOMAIN conversationMemory :
    LET messages == memories[conversationMemory[sid]].messages
    IN \A i \in 1..Len(messages) :
         messages[i].role = "assistant" =>
           /\ i > 1
           /\ messages[i - 1].role = "user"
           /\ messages[i - 1].content = messages[i].content

\* the part of C39 that holds: an assistant entry never comes first, and its
\* cycle's user entry is somewhere before it
AssistantAfterOwnUserTurn ==
  \A m \in 1..Len(memories) :
    \A i \in 1..Len(memories[m].messages) :
      memories[m].messages[i].role = "assistant" =>
        \E j \in 1..(i - 1) : memories[m].messages[j] = UserTurn(memories[m].messages[i].content)

====
